---- MODULE Spec2Model ----
(***************************************************************************)
(* gitops-sync: cmd/sync/main.go.  One run of Main mirrors an input tree   *)
(* into a subdirectory of a branch of a remote repository, force-pushes    *)
(* the branch and then merges it or opens a draft pull request.            *)
(*                                                                         *)
(* The remote repository (branch references, open pull requests) is the    *)
(* shared state; every run has its own in-memory clone.  A commit is the   *)
(* record of what git hashes (parents, tree, author time), so two commits  *)
(* are the same object exactly when git would give them the same hash.     *)
(***************************************************************************)
EXTENDS Integers, Sequences, FiniteSets, TLC

\* ------------------------------------------------------------ bounds
MaxClock == 2         \* last reading of the clock, in ticks
TicksPerSecond == 2   \* clock ticks in one second of the timestamp format
MaxExternal == 1      \* pushes by writers other than this program
MaxPathLen == 7       \* characters after the first slash of a URL path

\* ------------------------------------------------------------ strings
\* A string the code scans character by character is a sequence of
\* one-character strings.
SLASH == "/"
GitCutset == {".", "g", "i", "t"}
DotGit == <<".", "g", "i", "t">>
PathAlphabet == {"/", ".", "g", "i", "t", "a"}

RECURSIVE TrimRight(_, _)
\* strings.TrimRight(s, cutset): drops every trailing character that is in
\* cutset.
TrimRight(s, cutset) ==
  IF s # <<>> /\ s[Len(s)] \in cutset
  THEN TrimRight(SubSeq(s, 1, Len(s) - 1), cutset)
  ELSE s

RECURSIVE TrimLeft(_, _)
TrimLeft(s, cutset) ==
  IF s # <<>> /\ s[1] \in cutset THEN TrimLeft(Tail(s), cutset) ELSE s

\* strings.Trim(s, cutset)
Trim(s, cutset) == TrimRight(TrimLeft(s, cutset), cutset)

RECURSIVE Split(_, _)
\* strings.Split(s, sep) for a one-character sep: the pieces between the
\* separators, empty pieces included; Split("", sep) is one empty piece.
Split(s, sep) ==
  IF \E i \in 1..Len(s) : s[i] = sep
  THEN LET i == CHOOSE k \in 1..Len(s) :
                  s[k] = sep /\ \A j \in 1..(k - 1) : s[j] # sep
       IN <<SubSeq(s, 1, i - 1)>> \o Split(SubSeq(s, i + 1, Len(s)), sep)
  ELSE <<s>>

ParseError == [ok |-> FALSE, org |-> <<>>, repo |-> <<>>]

\* parseGitHubRepo(u), on the path url.Parse gives for u.
parseGitHubRepo(path) ==
  LET pathSegments == Split(Trim(TrimRight(path, GitCutset), {SLASH}), SLASH)
  IN IF Len(pathSegments) < 2 THEN ParseError
     ELSE [ok |-> TRUE, org |-> pathSegments[1], repo |-> pathSegments[2]]

\* ------------------------------------------------------------ data
\* Two executions of the pipeline; each runs Main once.
Procs == {"p1", "p2"}
Primary == "p1"

NoCommit == [parents |-> <<>>, tree |-> <<>>, when |-> 0, author |-> ""]
User == "ci-user"              \* login of the authenticated user

\* Trees map a path (a sequence of segments) to the file's content.
Tree0 == (<<"README">> :> "v1") @@ (<<"sub", "old">> :> "v1")
InputTrees == { (<<"a">> :> "v1"),
                (<<"a">> :> "v2") @@ (<<"b">> :> "v1") }
Commit0 == [parents |-> <<>>, tree |-> Tree0, when |-> 0, author |-> "dev"]

\* Flag values (lines 26-35).
OutputHeads == {"", "sync", "develop"}
OutputBases == {"develop", "missing"}
BasePRs == {"", "develop"}
BaseMerges == {"", "main"}
CommitTimes == {"now", "2021-03-04T05:06:07Z", "yesterday"}
OutputRepoPaths == {<<".">>, <<"sub">>}
OutputRepos == { <<"/", "o", "/", "r", ".", "g", "i", "t">>, <<"/", "o">> }

\* flag.Parse (line 45) fixes every flag before Main runs.  Main reads each
\* flag at one place, and the model draws the flag's value there: the runs
\* are the same as with all values drawn at the start.  Until then the
\* record holds the flag's zero value.
NoConfig ==
  [outputHead |-> "", outputBase |-> "", basePR |-> "", baseMerge |-> "",
   commitTime |-> "now", outputRepoPath |-> <<".">>, input |-> <<>>,
   outputRepo |-> <<>>]

\* The state of one process: its position in Main and the locals of Main.
IdleRun ==
  [pc |-> "idle", cfg |-> NoConfig, head |-> "", id |-> ParseError,
   localRefs |-> <<>>, index |-> <<>>, when |-> 0, hash |-> NoCommit,
   parent |-> NoCommit, fetchErr |-> "", pushErr |-> "", listed |-> 0, err |-> "", trace |-> <<>>]

VARIABLES
  remoteRefs,   \* the remote's branches: branch name -> commit
  pulls,        \* the host's open pull requests
  run,          \* per process: position in Main and its local variables
  clock,        \* the last reading of the wall clock, in ticks
  nExternal,    \* pushes by other writers so far
  history,      \* per run, in order: how lines 67-69 resolved the head branch
  parseIn,      \* argument of a direct call of parseGitHubRepo
  parseOut      \* its result

vars == <<remoteRefs, pulls, run, clock, nExternal, history,
          parseIn, parseOut>>

NoResult == [ok |-> FALSE, org |-> <<"?">>, repo |-> <<"?">>]

Init ==
  /\ remoteRefs = ("develop" :> Commit0) @@ ("main" :> Commit0)
  /\ pulls = {}
  /\ run = [r \in Procs |-> IdleRun]
  /\ clock = 0
  /\ nExternal = 0
  /\ history = <<>>
  /\ parseIn = <<>>
  /\ parseOut = NoResult

\* ------------------------------------------------------------ helpers
\* A format that keeps the fraction of the second.
FormatTicks(t) == ToString(t)

\* time.Now().Format("20060102T150405Z"): the clock reading cut to whole
\* seconds, as text.
Format(t) == ToString(t \div TicksPerSecond)

\* Lines 67-69: the head branch is the flag's value, or is derived from the
\* clock when the flag is unset.
ResolveHead(cfg, now) ==
  IF cfg.outputHead = "" THEN "auto/sync/" \o Format(now) ELSE cfg.outputHead

\* Lines 70-71: the reference name of a branch.  The reference tables of
\* the model are keyed by branch: the key b stands for refs/heads/b.
ReferenceName(branch) == "refs/heads/" \o branch

\* plumbing.RefRevParseRules, each without its %s; the rule for
\* refs/remotes/<name>/HEAD is left out, no branch being a remote's.
RefRevParseRules == <<"refs/", "refs/tags/", "refs/heads/", "refs/remotes/">>
HasPrefix(s, prefix) == Len(s) >= Len(prefix) /\ SubSeq(s, 1, Len(prefix)) = prefix

\* Short that returns at the first rule that scans: "refs/%s".
ShortFirstRule(ref) ==
  IF HasPrefix(ref, RefRevParseRules[1]) /\ Len(ref) > Len(RefRevParseRules[1])
  THEN SubSeq(ref, Len(RefRevParseRules[1]) + 1, Len(ref)) ELSE ref

RECURSIVE ShortFrom(_, _, _)
\* The loop of ReferenceName.Short from rule k on: every rule that scans
\* the name overwrites the result with what follows the rule's prefix.
ShortFrom(ref, res, k) ==
  IF k > Len(RefRevParseRules) THEN res
  ELSE LET rule == RefRevParseRules[k]
       IN ShortFrom(ref,
                    IF HasPrefix(ref, rule) /\ Len(ref) > Len(rule)
                    THEN SubSeq(ref, Len(rule) + 1, Len(ref)) ELSE res,
                    k + 1)

\* headRefName.Short() (lines 198, 210, 223): the name the host is given.
Short(ref) == ShortFrom(ref, ref, 1)

\* time.Parse(time.RFC3339, s): the texts that parse, and the time each gives
\* (in seconds of the model's clock).
Rfc3339 == ("2021-03-04T05:06:07Z" :> 0)
ParsesAsTime(s) == s \in DOMAIN Rfc3339

\* CommitWhen with the error of time.Parse dropped: the zero time is used.
CommitWhenLenient(cfg, now) ==
  IF cfg.commitTime # "now"
  THEN [ok |-> TRUE,
        t |-> IF ParsesAsTime(cfg.commitTime) THEN Rfc3339[cfg.commitTime] ELSE 0]
  ELSE [ok |-> TRUE, t |-> now \div TicksPerSecond]

\* Lines 163-167: the author time of the commit; ok is false when orFatal
\* ends the run.
CommitWhen(cfg, now) ==
  IF cfg.commitTime # "now"
  THEN IF ParsesAsTime(cfg.commitTime)
       THEN [ok |-> TRUE, t |-> Rfc3339[cfg.commitTime]]
       ELSE [ok |-> FALSE, t |-> 0]
  ELSE [ok |-> TRUE, t |-> now \div TicksPerSecond]

\* orFatal that logs the error and returns.
FatalGoesOn(rec, ctx) == [rec EXCEPT !.err = ctx]

\* orFatal(err, ctx) with err # nil: log.Fatal ends the process.
Fatal(rec, ctx) == [rec EXCEPT !.pc = "failed", !.err = ctx]

\* A step of Main that made the call or step `what` and goes on at `next`.
Step(rec, what, next) ==
  [rec EXCEPT !.pc = next, !.trace = Append(@, what)]

\* Index.Glob's match for a pattern without metacharacters: an entry matches
\* when its whole name is the pattern.  An entry below a directory named by
\* the pattern does not match, and no entry is named ".".
GlobMatch(pattern, name) == name = pattern

\* Worktree.RemoveGlob(pattern) (line 137): the matching entries leave the
\* index and the filesystem.
RemoveGlob(pattern, tree) ==
  [n \in {m \in DOMAIN tree : ~GlobMatch(pattern, m)} |-> tree[n]]

\* Lines 139-142: the directory the input is copied into; no chroot for "."
\* (the empty path cannot be written as a flag value here).
ChrootDir(cfg) ==
  IF cfg.outputRepoPath # <<".">> /\ cfg.outputRepoPath # <<>>
  THEN cfg.outputRepoPath ELSE <<>>

\* copy(inputFs, outputFs) after chrootMkdir: every file of the input is
\* written below dir, over what is there.
CopyInto(input, dir, tree) ==
  LET written == {dir \o q : q \in DOMAIN input}
  IN [n \in DOMAIN tree \cup written |->
        IF n \in written
        THEN input[CHOOSE q \in DOMAIN input : dir \o q = n]
        ELSE tree[n]]

\* Whether path n lies in directory dir ("." and "" are the root).
Under(dir, n) == Len(n) >= Len(dir) /\ SubSeq(n, 1, Len(dir)) = dir

\* path.Clean of the flag, as the worktree reads it.
Clean(p) == IF p = <<".">> THEN <<>> ELSE p

\* Worktree.Add(path) (line 145): the files of the filesystem below path are
\* staged; the rest of the index stays.
Add(path, index, fs) ==
  LET staged == {n \in DOMAIN fs : Under(Clean(path), n)}
  IN [n \in DOMAIN index \cup staged |->
        IF n \in staged THEN fs[n] ELSE index[n]]

\* Lines 137-145 with the destination subdirectory left out: the input is
\* copied to the root and the whole tree is staged.
ReplacedIndexWholeTree(cfg, tree) ==
  LET removed == RemoveGlob(cfg.outputRepoPath, tree)
      fs == CopyInto(cfg.input, <<>>, removed)
  IN Add(<<".">>, removed, fs)

\* Lines 137-145 on an index and a filesystem that hold `tree`.
ReplacedIndex(cfg, tree) ==
  LET removed == RemoveGlob(cfg.outputRepoPath, tree)
      fs == CopyInto(cfg.input, ChrootDir(cfg), removed)
  IN Add(cfg.outputRepoPath, removed, fs)

\* time.Now(): a reading of the wall clock, no earlier than the last one.
Now == clock..MaxClock

\* ------------------------------------------------------------ the host
\* ListPulls with the base compared with the head branch: the filter never
\* matches a request of this program.
ListPullsWrongBase(id, head, base) ==
  {p \in pulls : p.org = id.org /\ p.repo = id.repo
                 /\ p.head = head /\ p.base = head /\ base # head}

\* The pull requests PullRequests.List returns for Head "org:head" and
\* Base base (lines 209-212); the state filter defaults to open.
ListPulls(id, head, base) ==
  {p \in pulls : p.org = id.org /\ p.repo = id.repo
                 /\ p.head = head /\ p.base = base}

\* prTemplate without Draft: the request is opened ready for review.
NewPullReady(id, head, base) ==
  [org |-> id.org, repo |-> id.repo, head |-> head, base |-> base,
   draft |-> FALSE, number |-> Cardinality(pulls) + 1]

\* The request PullRequests.Create opens from prTemplate (lines 222-229).
\* The host is taken to accept every request it is asked to create.
NewPull(id, head, base) ==
  [org |-> id.org, repo |-> id.repo, head |-> head, base |-> base,
   draft |-> TRUE, number |-> Cardinality(pulls) + 1]

\* Whether the host has nothing to merge: base already holds head's commit.
Merged(baseTip, headTip) ==
  baseTip = headTip \/ \E i \in 1..Len(baseTip.parents) : baseTip.parents[i] = headTip

\* The commit Repositories.Merge leaves on base.
MergeCommit(baseTip, headTip) ==
  IF Merged(baseTip, headTip) THEN baseTip
  ELSE [parents |-> <<baseTip, headTip>>, tree |-> headTip.tree,
        when |-> headTip.when, author |-> User]

\* The commit another writer pushes.
Foreign(n) ==
  [parents |-> <<>>, tree |-> (<<"manual">> :> "v1"), when |-> n,
   author |-> "other"]
ExternalBranches == {"sync"}

\* ------------------------------------------------------------ Main
Set(r, rec) == run' = [run EXCEPT ![r] = rec]
Ended(r) == run[r].pc \in {"done", "failed"}
NotRunning(r) == run[r].pc \in {"idle", "exited"}

\* Lines 194-207 with the pull-request block before the merge block.
AfterPushPRFirst(cfg) ==
  IF cfg.basePR # "" THEN "listprs"
  ELSE IF cfg.baseMerge # "" THEN "merge" ELSE "done"

\* Lines 194-207 with the push made again after a push that did not fail.
AfterPushRetry(cfg) == "push"

\* Lines 194-207 without the test of line 207: the pull-request block runs
\* whenever the merge block does not.
AfterPushListAlways(cfg) ==
  IF cfg.baseMerge # "" THEN "merge" ELSE "listprs"

\* Lines 194-207: what follows a push that did not fail.
AfterPush(cfg) ==
  IF cfg.baseMerge # "" THEN "merge"
  ELSE IF cfg.basePR # "" THEN "listprs" ELSE "done"

\* A process starts Main (init, lines 44-51, has parsed the flags).
Start(r) ==
  /\ run[r].pc = "idle"
  /\ Set(r, [IdleRun EXCEPT !.pc = "getuser"])
  /\ UNCHANGED <<remoteRefs, pulls, clock, nExternal, history, parseIn, parseOut>>

\* One pipeline execution at a time, the single-writer use the design
\* assumes: the primary process first, the other when it has ended.
StartSeq(r) ==
  /\ \A q \in Procs \ {r} : NotRunning(q)
  /\ r = Primary \/ run[Primary].pc # "idle"
  /\ Start(r)

\* Lines 54-64: client.Users.Get with the credentials of getClientAuth;
\* log.Panic on error.
GetUser(r) ==
  /\ run[r].pc = "getuser"
  /\ \E failed \in BOOLEAN :
       LET rec == Step(run[r], "get-user", "options")
       IN Set(r, IF failed THEN Fatal(rec, "auth") ELSE rec)
  /\ UNCHANGED <<remoteRefs, pulls, clock, nExternal, history, parseIn, parseOut>>

\* Lines 66-73: head branch name, reference names, parseGitHubRepo.
Options(r) ==
  /\ run[r].pc = "options"
  /\ \E h \in OutputHeads, b \in OutputBases, u \in OutputRepos, now \in Now :
     LET cfg == [run[r].cfg EXCEPT !.outputHead = h, !.outputBase = b,
                                   !.outputRepo = u]
         head == ResolveHead(cfg, now)
         id == parseGitHubRepo(cfg.outputRepo)
         rec == [run[r] EXCEPT !.pc = "clone", !.cfg = cfg, !.head = head,
                               !.id = id]
     IN /\ cfg.outputHead # "" => now = clock
        /\ Set(r, IF id.ok THEN rec ELSE Fatal(rec, "parsing url"))
        /\ clock' = now
        /\ history' = Append(history,
                        [derived |-> cfg.outputHead = "", flag |-> cfg.outputHead,
                         at |-> now, head |-> head])
  /\ UNCHANGED <<remoteRefs, pulls, nExternal, parseIn, parseOut>>

\* Lines 75-87: git.Clone of the base branch only, into memory.
Clone(r) ==
  /\ run[r].pc = "clone"
  /\ \E failed \in BOOLEAN :
       LET base == run[r].cfg.outputBase
           rec == Step(run[r], "clone", "fetch")
       IN Set(r, IF failed \/ base \notin DOMAIN remoteRefs
                 THEN Fatal(rec, "cloning")
                 ELSE [rec EXCEPT !.localRefs = (base :> remoteRefs[base]),
                                  !.index = remoteRefs[base].tree])
  /\ UNCHANGED <<remoteRefs, pulls, clock, nExternal, history, parseIn, parseOut>>

\* Repository.Fetch of refs/heads/<head>:refs/heads/<head> (lines 91-96):
\* the error it returns, and the local references after it.
FetchResult(head, localRefs, failed) ==
  IF failed THEN [err |-> "transport", refs |-> localRefs]
  ELSE IF head \notin DOMAIN remoteRefs
  THEN [err |-> "NoMatchingRefSpecError", refs |-> localRefs]
  ELSE IF head \notin DOMAIN localRefs
  THEN [err |-> "", refs |-> (head :> remoteRefs[head]) @@ localRefs]
  ELSE IF localRefs[head] = remoteRefs[head]
  THEN [err |-> "NoErrAlreadyUpToDate", refs |-> localRefs]
  ELSE IF \E i \in 1..Len(remoteRefs[head].parents) :
             remoteRefs[head].parents[i] = localRefs[head]
  THEN [err |-> "", refs |-> (head :> remoteRefs[head]) @@ localRefs]
  ELSE [err |-> "ErrForceNeeded", refs |-> localRefs]

\* Line 97 without the NoMatchingRefSpecError test.
BenignUpToDateOnly(err) == err = "NoErrAlreadyUpToDate"

\* Line 97: the fetch errors that are set to nil.
Benign(err) == err \in {"NoErrAlreadyUpToDate", "NoMatchingRefSpecError"}

\* Lines 90-101.
Fetch(r) ==
  /\ run[r].pc = "fetch"
  /\ \E failed \in BOOLEAN :
       LET res == FetchResult(run[r].head, run[r].localRefs, failed)
           err == IF Benign(res.err) THEN "" ELSE res.err
           rec == [Step(run[r], "fetch", "resolve") EXCEPT
                     !.localRefs = res.refs, !.fetchErr = res.err]
       IN Set(r, IF err # "" THEN Fatal(rec, "fetching pre-existing head") ELSE rec)
  /\ UNCHANGED <<remoteRefs, pulls, clock, nExternal, history, parseIn, parseOut>>

\* Lines 103-110: the worktree and the base reference.
ResolveBase(r) ==
  /\ run[r].pc = "resolve"
  /\ LET base == run[r].cfg.outputBase
     IN Set(r, IF base \in DOMAIN run[r].localRefs
               THEN [run[r] EXCEPT !.pc = "checkout"]
               ELSE Fatal(run[r], "base branch does not exist"))
  /\ UNCHANGED <<remoteRefs, pulls, clock, nExternal, history, parseIn, parseOut>>

\* Lines 112-132: check out the head branch, creating it from the base
\* reference when the local reference table does not hold it.
CheckoutHead(r) ==
  /\ run[r].pc = "checkout"
  /\ \E failed \in BOOLEAN :
       LET head == run[r].head
           refs == run[r].localRefs
           reuse == head \in DOMAIN refs
           tip == IF reuse THEN refs[head] ELSE refs[run[r].cfg.outputBase]
           rec == Step(run[r], IF reuse THEN "checkout-reuse" ELSE "checkout-create",
                       "replace")
       IN Set(r, IF failed THEN Fatal(rec, "worktree checkout")
                 ELSE [rec EXCEPT !.localRefs = (head :> tip) @@ refs,
                                  !.index = tip.tree, !.parent = tip])
  /\ UNCHANGED <<remoteRefs, pulls, clock, nExternal, history, parseIn, parseOut>>

\* Lines 134-145: RemoveGlob, chrootMkdir, copy, Add.  An error of any of
\* the first three ends the run (the context logged is not told apart).
ReplaceContent(r) ==
  /\ run[r].pc = "replace"
  /\ \E failed \in BOOLEAN, d \in OutputRepoPaths, t \in InputTrees :
       LET cfg == [run[r].cfg EXCEPT !.outputRepoPath = d, !.input = t]
           rec == [Step(run[r], "replace", "time") EXCEPT !.cfg = cfg]
       IN Set(r, IF failed THEN Fatal(rec, "copy files")
                 ELSE [rec EXCEPT !.index = ReplacedIndex(cfg, run[r].index)])
  /\ UNCHANGED <<remoteRefs, pulls, clock, nExternal, history, parseIn, parseOut>>

\* Lines 147-167: commit message, status, and the commit's time.
ParseTime(r) ==
  /\ run[r].pc = "time"
  /\ \E ct \in CommitTimes, now \in Now :
     LET cfg == [run[r].cfg EXCEPT !.commitTime = ct]
         t == CommitWhen(cfg, now)
         rec == [run[r] EXCEPT !.pc = "commit", !.cfg = cfg, !.when = t.t]
     IN /\ Set(r, IF t.ok THEN rec ELSE Fatal(rec, "parsing commit time"))
        /\ clock' = now
  /\ UNCHANGED <<remoteRefs, pulls, nExternal, history, parseIn, parseOut>>

\* Worktree.Commit that builds on the base branch's commit whatever is
\* checked out.
NewCommitOnBase(rec) ==
  [parents |-> <<rec.localRefs[rec.cfg.outputBase]>>, tree |-> rec.index,
   when |-> rec.when, author |-> User]

\* The commit Worktree.Commit creates (lines 168-173): the index as its
\* tree, the checked-out commit as its parent.
NewCommit(rec) ==
  [parents |-> <<rec.parent>>, tree |-> rec.index, when |-> rec.when,
   author |-> User]

\* Lines 168-180: commit, and set the head reference to it.
Commit(r) ==
  /\ run[r].pc = "commit"
  /\ \E failed \in BOOLEAN :
       LET rec == Step(run[r], "commit", "push")
           hash == NewCommit(run[r])
       IN Set(r, IF failed THEN Fatal(rec, "committing")
                 ELSE [rec EXCEPT !.hash = hash,
                                  !.localRefs = (rec.head :> hash) @@ @])
  /\ UNCHANGED <<remoteRefs, pulls, clock, nExternal, history, parseIn, parseOut>>

\* Push without Force: the remote refuses a commit that does not descend
\* from the one its reference holds.
PushErrorNoForce(head, hash, failed) ==
  IF failed THEN "transport"
  ELSE IF head \in DOMAIN remoteRefs /\ remoteRefs[head] = hash
  THEN "NoErrAlreadyUpToDate"
  ELSE IF head \in DOMAIN remoteRefs
          /\ \A i \in 1..Len(hash.parents) : hash.parents[i] # remoteRefs[head]
  THEN "non-fast-forward update" ELSE ""

\* Remote.Push with Force (lines 185-190): the error it returns.  Nothing
\* is compared with the remote's reference except for equality: a push of
\* the commit the remote already holds is NoErrAlreadyUpToDate.
PushError(head, hash, failed) ==
  IF failed THEN "transport"
  ELSE IF head \in DOMAIN remoteRefs /\ remoteRefs[head] = hash
  THEN "NoErrAlreadyUpToDate" ELSE ""

\* Lines 182-192 with the base branch as the destination of the refspec.
PushToBase(r) ==
  /\ run[r].pc = "push"
  /\ \E failed \in BOOLEAN, m \in BaseMerges, p \in BasePRs :
       LET cfg == [run[r].cfg EXCEPT !.baseMerge = m, !.basePR = p]
           err == PushError(run[r].cfg.outputBase, run[r].hash, failed)
           rec == [Step(run[r], "push", AfterPush(cfg)) EXCEPT
                     !.cfg = cfg, !.pushErr = err]
       IN /\ Set(r, IF err # "" THEN Fatal(rec, "pushing") ELSE rec)
          /\ remoteRefs' = IF err # "" THEN remoteRefs
                           ELSE (run[r].cfg.outputBase :> run[r].hash) @@ remoteRefs
  /\ UNCHANGED <<pulls, clock, nExternal, history, parseIn, parseOut>>

\* Lines 182-192.
Push(r) ==
  /\ run[r].pc = "push"
  /\ \E failed \in BOOLEAN, m \in BaseMerges, p \in BasePRs :
       LET cfg == [run[r].cfg EXCEPT !.baseMerge = m, !.basePR = p]
           err == PushError(run[r].head, run[r].hash, failed)
           rec == [Step(run[r], "push", AfterPush(cfg)) EXCEPT
                     !.cfg = cfg, !.pushErr = err]
       IN /\ Set(r, IF err # "" THEN Fatal(rec, "pushing") ELSE rec)
          /\ remoteRefs' = IF err # "" THEN remoteRefs
                           ELSE (run[r].head :> run[r].hash) @@ remoteRefs
  /\ UNCHANGED <<pulls, clock, nExternal, history, parseIn, parseOut>>

\* Lines 194-204: Repositories.Merge of head into the merge base; return.
Merge(r) ==
  /\ run[r].pc = "merge"
  /\ \E failed \in BOOLEAN :
       LET base == run[r].cfg.baseMerge
           head == Short(ReferenceName(run[r].head))
           rec == Step(run[r], "merge", "done")
           refused == failed \/ base \notin DOMAIN remoteRefs
                      \/ head \notin DOMAIN remoteRefs
       IN /\ Set(r, IF refused THEN Fatal(rec, "merging") ELSE rec)
          /\ remoteRefs' =
               IF refused THEN remoteRefs
               ELSE (base :> MergeCommit(remoteRefs[base], remoteRefs[head]))
                    @@ remoteRefs
  /\ UNCHANGED <<pulls, clock, nExternal, history, parseIn, parseOut>>

\* Lines 206-220: list the open pull requests of (head, base); return when
\* there is one.
ListPRs(r) ==
  /\ run[r].pc = "listprs"
  /\ \E failed \in BOOLEAN :
       LET prs == ListPulls(run[r].id, Short(ReferenceName(run[r].head)),
                            run[r].cfg.basePR)
           rec == Step(run[r], "list-prs",
                       IF Cardinality(prs) > 0 THEN "done" ELSE "createpr")
       IN Set(r, IF failed THEN Fatal(rec, "getting existing prs")
                 ELSE [rec EXCEPT !.listed = Cardinality(prs)])
  /\ UNCHANGED <<remoteRefs, pulls, clock, nExternal, history, parseIn, parseOut>>

\* Lines 222-231: create the draft pull request.
CreatePR(r) ==
  /\ run[r].pc = "createpr"
  /\ \E failed \in BOOLEAN :
       LET rec == Step(run[r], "create-pr", "done")
       IN /\ Set(r, IF failed THEN Fatal(rec, "creating pr") ELSE rec)
          /\ pulls' = IF failed THEN pulls
                      ELSE pulls \cup {NewPull(run[r].id,
                                                Short(ReferenceName(run[r].head)),
                                                run[r].cfg.basePR)}
  /\ UNCHANGED <<remoteRefs, clock, nExternal, history, parseIn, parseOut>>

\* Main has returned or log.Fatal has ended it: the process exits, and its
\* in-memory clone and its variables are gone.
Exit(r) ==
  /\ Ended(r)
  /\ Set(r, [IdleRun EXCEPT !.pc = "exited"])
  /\ UNCHANGED <<remoteRefs, pulls, clock, nExternal, history, parseIn, parseOut>>

\* ------------------------------------------------------------ environment
\* A writer other than this program pushes to a branch.  The push is taken
\* just before a process reads or writes the remote's references (fetch,
\* push, merge): pushed earlier, it is seen in the same way.
ExternalPush ==
  /\ nExternal < MaxExternal
  /\ \E r \in Procs : run[r].pc \in {"fetch", "push", "merge"}
  /\ \E b \in ExternalBranches :
       remoteRefs' = (b :> Foreign(nExternal)) @@ remoteRefs
  /\ nExternal' = nExternal + 1
  /\ UNCHANGED <<pulls, run, clock, history, parseIn, parseOut>>

Next ==
  \/ \E r \in Procs :
       \/ StartSeq(r)
       \/ GetUser(r)
       \/ Options(r)
       \/ Clone(r)
       \/ Fetch(r)
       \/ ResolveBase(r)
       \/ CheckoutHead(r)
       \/ ReplaceContent(r)
       \/ ParseTime(r)
       \/ Commit(r)
       \/ Push(r)
       \/ Merge(r)
       \/ ListPRs(r)
       \/ CreatePR(r)
       \/ Exit(r)
  \/ ExternalPush

Spec == Init /\ [][Next]_vars

\* ------------------------------------------------------------ parseGitHubRepo alone
\* The path url.Parse gives for an absolute URL: a slash and up to
\* MaxPathLen more characters.
UrlPaths ==
  {<<SLASH>> \o p : p \in UNION {[1..n -> PathAlphabet] : n \in 0..MaxPathLen}}

\* No organisation or repository is named by dots alone.
DotsOnly(seg) == seg # <<>> /\ \A i \in 1..Len(seg) : seg[i] = "."
RepoPaths ==
  {p \in UrlPaths :
     LET segs == Split(p, SLASH) IN \A i \in 1..Len(segs) : ~DotsOnly(segs[i])}

InitParse ==
  /\ remoteRefs = ("develop" :> Commit0) @@ ("main" :> Commit0)
  /\ pulls = {}
  /\ run = [r \in Procs |-> IdleRun]
  /\ clock = 0
  /\ nExternal = 0
  /\ history = <<>>
  /\ parseIn \in RepoPaths
  /\ parseOut = NoResult

\* A call parseGitHubRepo(u) for a URL whose path is parseIn.
ParseCall ==
  /\ parseOut = NoResult
  /\ parseOut' = parseGitHubRepo(parseIn)
  /\ UNCHANGED <<remoteRefs, pulls, run, clock, nExternal, history, parseIn>>

NextParse == ParseCall

SpecParse == InitParse /\ [][NextParse]_vars

\* ------------------------------------------------------------ claims
InTrace(r, what) == \E i \in 1..Len(run[r].trace) : run[r].trace[i] = what
Pushed(r) == InTrace(r, "push") /\ run[r].pushErr = ""
SamePair(p, q) ==
  p.org = q.org /\ p.repo = q.repo /\ p.head = q.head /\ p.base = q.base

\* C1: with one run at a time, the host never holds two open pull requests
\* of the same repository, head and base, and a run whose listing returned
\* one or more requests creates none.
C1_OneOpenRequestPerPair ==
  /\ \A p, q \in pulls : SamePair(p, q) => p = q
  /\ \A r \in Procs : run[r].listed > 0 => ~InTrace(r, "create-pr")

\* A second run found the request of the first and returned.
C1_Witness ==
  \E r \in Procs :
    /\ run[r].pc = "done" /\ run[r].listed > 0
    /\ \E p \in pulls : p.head = run[r].head /\ p.base = run[r].cfg.basePR

\* C2: after a successful run the destination directory of the pushed
\* commit holds exactly the input tree: every input file with its content,
\* and no other file below the directory.
C2_MirrorsInput ==
  \A r \in Procs :
    run[r].pc = "done" =>
      LET dir == Clean(run[r].cfg.outputRepoPath)
          input == run[r].cfg.input
          tree == run[r].hash.tree
      IN /\ \A q \in DOMAIN input :
              dir \o q \in DOMAIN tree /\ tree[dir \o q] = input[q]
         /\ \A n \in DOMAIN tree :
              Under(dir, n) => \E q \in DOMAIN input : n = dir \o q

\* C3: a run whose base branch the remote does not hold has failed once the
\* clone has returned, with no checkout, content replacement, commit, push,
\* merge or pull-request call made and no commit created.
C3_MissingBaseFailsFirst ==
  \A r \in Procs :
    (InTrace(r, "clone") /\ run[r].cfg.outputBase \notin DOMAIN remoteRefs) =>
      /\ run[r].pc = "failed"
      /\ run[r].hash = NoCommit
      /\ \A what \in {"checkout-reuse", "checkout-create", "replace", "commit",
                      "push", "merge", "list-prs", "create-pr"} : ~InTrace(r, what)

C3_Witness ==
  \E r \in Procs :
    /\ run[r].pc = "failed" /\ run[r].err = "cloning"
    /\ run[r].cfg.outputBase \notin DOMAIN remoteRefs
    /\ run[r].index = <<>>

\* C4 as stated: a run that fails on the commit timestamp has made no
\* network call.
C4_TimeErrorBeforeNetwork ==
  \A r \in Procs :
    run[r].err = "parsing commit time" =>
      \A what \in {"get-user", "clone", "fetch", "push"} : ~InTrace(r, what)

\* C4, amended: a run whose commit timestamp is neither "now" nor parses has
\* failed at the timestamp step, after the get-user, clone and fetch calls,
\* with no commit created and no push, merge or pull-request call made.
C4_TimeErrorBeforeCommit ==
  \A r \in Procs :
    (run[r].cfg.commitTime # "now" /\ run[r].cfg.commitTime \notin DOMAIN Rfc3339) =>
      /\ run[r].pc = "failed" /\ run[r].err = "parsing commit time"
      /\ run[r].hash = NoCommit
      /\ \A what \in {"get-user", "clone", "fetch"} : InTrace(r, what)
      /\ \A what \in {"commit", "push", "merge", "list-prs", "create-pr"} :
           ~InTrace(r, what)

C4_Witness ==
  \E r \in Procs :
    /\ run[r].cfg.commitTime = "yesterday"
    /\ run[r].err = "parsing commit time"
    /\ InTrace(r, "replace")

\* C5: after the fetch, an error of kind already-up-to-date or
\* no-matching-reference has not ended the run, which goes on to resolve the
\* base; any other error has ended it, with no checkout, commit or push.
C5_FetchErrors ==
  \A r \in Procs :
    InTrace(r, "fetch") =>
      IF run[r].fetchErr \in {"", "NoErrAlreadyUpToDate", "NoMatchingRefSpecError"}
      THEN /\ run[r].err # "fetching pre-existing head"
           /\ run[r].trace[Len(run[r].trace)] = "fetch" =>
                run[r].pc \in {"resolve", "checkout"}
      ELSE /\ run[r].pc = "failed" /\ run[r].err = "fetching pre-existing head"
           /\ \A what \in {"checkout-reuse", "checkout-create", "commit", "push"} :
                ~InTrace(r, what)

\* A fetch that was already up to date, and the run has resolved the base.
C5_Witness ==
  \E r \in Procs :
    run[r].fetchErr = "NoErrAlreadyUpToDate" /\ run[r].pc = "checkout"

\* C6 as stated: any two runs with an unset head branch have distinct head
\* branch names, and a run with an explicit head branch uses that name.
C6_DerivedNamesDistinct ==
  \A i, j \in DOMAIN history :
    /\ (i # j /\ history[i].derived /\ history[j].derived) =>
         history[i].head # history[j].head
    /\ ~history[i].derived => history[i].head = history[i].flag

\* C6, amended: the derived names of two runs are the same exactly when the
\* two clock readings fall in the same second, and runs with the same
\* explicit head branch use that one name.
C6_DerivedNamesBySecond ==
  \A i, j \in DOMAIN history :
    /\ (history[i].derived /\ history[j].derived) =>
         (history[i].head = history[j].head
            <=> history[i].at \div TicksPerSecond = history[j].at \div TicksPerSecond)
    /\ ~history[i].derived => history[i].head = history[i].flag

\* Two runs whose clocks read different ticks of one second share a name.
C6_Witness ==
  \E i, j \in DOMAIN history :
    /\ history[i].derived /\ history[j].derived
    /\ history[i].at # history[j].at
    /\ history[i].head = history[j].head

\* C7: a push that the transport does not fail leaves the remote head
\* branch at the commit of this run, whatever the branch held, and the only
\* error it can give besides a transport error is already-up-to-date.
C7_PushOverwrites ==
  [][\A r \in Procs :
       (run[r].pc = "push" /\ run'[r].pc # "push"
        /\ run'[r].pushErr # "transport") =>
         /\ run[r].head \in DOMAIN remoteRefs'
         /\ remoteRefs'[run[r].head] = run[r].hash
         /\ run'[r].pushErr \in {"", "NoErrAlreadyUpToDate"}]_vars

\* A run pushed over a commit another writer put on the head branch after
\* the run had fetched it.
C7_Witness ==
  \E r \in Procs :
    /\ Pushed(r) /\ run[r].head = "sync"
    /\ nExternal > 0
    /\ run[r].parent.author # "other"
    /\ remoteRefs["sync"] = run[r].hash

\* C8: with both a merge base and a pull-request base, a run whose push
\* succeeded goes to the merge and ends there; it never lists or creates a
\* pull request.
C8_MergeOnly ==
  \A r \in Procs :
    (run[r].cfg.baseMerge # "" /\ run[r].cfg.basePR # "") =>
      /\ ~InTrace(r, "list-prs") /\ ~InTrace(r, "create-pr")
      /\ run[r].pc \notin {"listprs", "createpr"}
      /\ Pushed(r) => run[r].pc \in {"merge", "done", "failed"}
      /\ run[r].pc = "done" => run[r].trace[Len(run[r].trace)] = "merge"

C8_Witness ==
  \E r \in Procs :
    /\ run[r].cfg.baseMerge # "" /\ run[r].cfg.basePR # ""
    /\ run[r].pc = "done" /\ InTrace(r, "merge")

\* strings.TrimSuffix(s, suffix)
TrimSuffix(s, suffix) ==
  IF Len(s) >= Len(suffix) /\ SubSeq(s, Len(s) - Len(suffix) + 1, Len(s)) = suffix
  THEN SubSeq(s, 1, Len(s) - Len(suffix)) ELSE s

\* The non-empty path segments the claim speaks of: of the path without one
\* trailing ".git" and without leading and trailing slashes.
PathSegments(path) ==
  SelectSeq(Split(Trim(TrimSuffix(path, DotGit), {SLASH}), SLASH),
            LAMBDA seg : seg # <<>>)

\* C9: parseGitHubRepo returns the first two non-empty path segments, with
\* nothing but slashes and one ".git" suffix removed, and an error when
\* there are fewer than two.
C9_FirstTwoSegments ==
  parseOut # NoResult =>
    LET segs == PathSegments(parseIn)
    IN IF Len(segs) >= 2
       THEN parseOut = [ok |-> TRUE, org |-> segs[1], repo |-> segs[2]]
       ELSE ~parseOut.ok

ReconcileErrors == {"merging", "getting existing prs", "creating pr"}

\* C11: a run whose merge, pull-request listing or pull-request creation
\* fails has ended in failure after its push succeeded, and the remote head
\* branch still holds the commit the run pushed, unless a writer other than
\* this program has pushed to the branch since: the run rolls nothing back.
C11_NoRollback ==
  \A r \in Procs :
    run[r].err \in ReconcileErrors =>
      /\ run[r].pc = "failed"
      /\ Pushed(r)
      /\ run[r].head \in DOMAIN remoteRefs
      /\ remoteRefs[run[r].head] = run[r].hash
           \/ remoteRefs[run[r].head].author = "other"

\* The creation of the pull request failed and the pushed commit is still
\* on the head branch.
C11_Witness ==
  \E r \in Procs :
    /\ run[r].pc = "failed" /\ run[r].err = "creating pr"
    /\ Pushed(r)
    /\ remoteRefs[run[r].head] = run[r].hash

\* ------------------------------------------------------------ concurrent runs
\* Whether run r has read its flags for the repository and the branches.
Resolved(r) == run[r].pc \notin {"idle", "getuser", "options", "exited"}

\* The runs under way are jobs of one workflow: they have the same flags for
\* the repository, the branches and the destination, each read where Main
\* reads it.  The input tree and the commit time are each job's own.
SameTarget ==
  \A r, q \in Procs :
    /\ (Resolved(r) /\ Resolved(q)) =>
         /\ run[r].cfg.outputRepo = run[q].cfg.outputRepo
         /\ run[r].cfg.outputBase = run[q].cfg.outputBase
         /\ run[r].cfg.outputHead = run[q].cfg.outputHead
    /\ (InTrace(r, "replace") /\ InTrace(q, "replace")) =>
         run[r].cfg.outputRepoPath = run[q].cfg.outputRepoPath
    /\ (InTrace(r, "push") /\ InTrace(q, "push")) =>
         /\ run[r].cfg.baseMerge = run[q].cfg.baseMerge
         /\ run[r].cfg.basePR = run[q].cfg.basePR

\* A process starts Main while another may be running it.  The processes
\* are alike, so the primary one is taken to start first.
StartConc(r) ==
  /\ r = Primary \/ run[Primary].pc # "idle"
  /\ Start(r)

\* Two pipeline executions at the same time on one target, as two CI jobs
\* of one workflow start them.
NextConc ==
  \E r \in Procs :
    \/ StartConc(r)
    \/ GetUser(r)
    \/ Options(r) /\ SameTarget'
    \/ Clone(r)
    \/ Fetch(r)
    \/ ResolveBase(r)
    \/ CheckoutHead(r)
    \/ ReplaceContent(r) /\ SameTarget'
    \/ ParseTime(r)
    \/ Commit(r)
    \/ Push(r) /\ SameTarget'
    \/ Merge(r)
    \/ ListPRs(r)
    \/ CreatePR(r)
    \/ Exit(r)

SpecConc == Init /\ [][NextConc]_vars

RECURSIVE Reachable(_, _)
\* Whether commit c is `from` or one of its ancestors.
Reachable(c, from) ==
  c = from \/ \E i \in 1..Len(from.parents) : Reachable(c, from.parents[i])

\* C12: when a run has pushed its commit to the head branch and a concurrent
\* run that built its own commit on the same fetched state pushes next, the
\* second push succeeds unless the transport fails it, the head branch then
\* holds the second commit, and the first commit is not reachable from it.
C12_LastPushWins ==
  [][\A r, q \in Procs :
       (/\ r # q
        /\ Pushed(q) /\ run[q].head = run[r].head
        /\ run[q].parent = run[r].parent
        /\ run[r].head \in DOMAIN remoteRefs
        /\ remoteRefs[run[r].head] = run[q].hash
        /\ run[q].hash # run[r].hash
        /\ run[r].pc = "push" /\ run'[r].pc # "push"
        /\ run'[r].pushErr # "transport") =>
         /\ run'[r].pushErr = "" /\ run'[r].pc # "failed"
         /\ remoteRefs'[run[r].head] = run[r].hash
         /\ ~Reachable(run[q].hash, remoteRefs'[run[r].head])
         /\ run'[q] = run[q]]_vars

\* Both runs built on the same fetched state, both pushed and both ended
\* without an error; the head branch holds the commit of one of them, from
\* which the commit of the other cannot be reached.
C12_Witness ==
  \E r, q \in Procs :
    /\ r # q
    /\ run[r].pc = "done" /\ run[q].pc = "done"
    /\ Pushed(r) /\ Pushed(q)
    /\ run[r].head = run[q].head /\ run[r].parent = run[q].parent
    /\ remoteRefs[run[r].head] = run[r].hash
    /\ ~Reachable(run[q].hash, run[r].hash)

\* Whether run r made the call or step a before the call or step b.
Before(r, a, b) ==
  \E i, j \in 1..Len(run[r].trace) :
    i < j /\ run[r].trace[i] = a /\ run[r].trace[j] = b

\* The calls of the reconciler (lines 197, 209, 229).
ReconcileCalls == {"merge", "list-prs", "create-pr"}

\* C13: a run calls merge, list-pull-requests or create-pull-request only
\* after its own push, and only when that push returned no error; a run
\* that failed at the push or before it has made none of these calls.
C13_ReconcileAfterPush ==
  \A r \in Procs :
    /\ \A what \in ReconcileCalls :
         InTrace(r, what) => Before(r, "push", what) /\ run[r].pushErr = ""
    /\ run[r].pc \in {"merge", "listprs", "createpr"} => Pushed(r)
    /\ (run[r].err # "" /\ run[r].err \notin ReconcileErrors) =>
         \A what \in ReconcileCalls : ~InTrace(r, what)

\* The push failed in a run asked to merge: the merge call was not made.
C13_Witness ==
  \E r \in Procs :
    /\ run[r].pc = "failed" /\ run[r].err = "pushing"
    /\ run[r].cfg.baseMerge # ""
    /\ ~InTrace(r, "merge")

\* C14: a fetch that did not end the run has put the head branch in the
\* local reference table, at the remote's commit, exactly when the remote
\* holds the branch.  The checkout then follows the table: with the head
\* branch in it the run checks the branch out without creating it and
\* builds on its commit; without it the run creates the branch at the base
\* branch's commit and builds on that; a checkout that does neither has
\* ended the run.  The commit's only parent is the commit checked out.
C14_ReuseOrCreate ==
  [][\A r \in Procs :
       LET head == run[r].head
           base == run[r].cfg.outputBase
           refs == run[r].localRefs
       IN /\ (run[r].pc = "fetch" /\ run'[r].pc = "resolve") =>
               IF head \in DOMAIN remoteRefs
               THEN /\ head \in DOMAIN run'[r].localRefs
                    /\ run'[r].localRefs[head] = remoteRefs[head]
               ELSE head \notin DOMAIN run'[r].localRefs
          /\ (run[r].pc = "checkout" /\ run'[r].pc = "replace") =>
               IF head \in DOMAIN refs
               THEN /\ InTrace(r, "checkout-reuse")'
                    /\ ~InTrace(r, "checkout-create")'
                    /\ run'[r].parent = refs[head]
                    /\ run'[r].localRefs[head] = refs[head]
               ELSE /\ InTrace(r, "checkout-create")'
                    /\ ~InTrace(r, "checkout-reuse")'
                    /\ run'[r].parent = refs[base]
                    /\ run'[r].localRefs[head] = refs[base]
          /\ (run[r].pc = "checkout" /\ run'[r].pc \notin {"checkout", "replace"}) =>
               run'[r].pc = "failed" /\ run'[r].hash = NoCommit
          /\ (run[r].pc = "commit" /\ run'[r].pc = "push") =>
               run'[r].hash.parents = <<run[r].parent>>]_vars

\* A run reused a head branch that is ahead of the base branch and built
\* its commit on the head branch's commit.
C14_Witness ==
  \E r \in Procs :
    /\ InTrace(r, "checkout-reuse") /\ run[r].hash # NoCommit
    /\ run[r].fetchErr = ""
    /\ run[r].hash.parents = <<run[r].parent>>
    /\ run[r].parent # Commit0

\* The place of a call or step in Main: get-user (58), clone (79), fetch
\* (91), checkout (116, 124), content replacement (137-145), commit (168),
\* push (185), merge (197) or list (209), create (229).
StepOrder ==
  <<{"get-user"}, {"clone"}, {"fetch"}, {"checkout-reuse", "checkout-create"},
    {"replace"}, {"commit"}, {"push"}, {"merge", "list-prs"}, {"create-pr"}>>
Rank(what) == CHOOSE k \in 1..Len(StepOrder) : what \in StepOrder[k]

\* The call or step whose error orFatal logs with each context.
FailedStep ==
  [e \in {"auth", "parsing url"} |-> {"get-user"}]
  @@ ("cloning" :> {"clone"})
  @@ [e \in {"fetching pre-existing head", "base branch does not exist"} |-> {"fetch"}]
  @@ ("worktree checkout" :> {"checkout-reuse", "checkout-create"})
  @@ [e \in {"copy files", "parsing commit time"} |-> {"replace"}]
  @@ ("committing" :> {"commit"})
  @@ ("pushing" :> {"push"})
  @@ ("merging" :> {"merge"})
  @@ ("getting existing prs" :> {"list-prs"})
  @@ ("creating pr" :> {"create-pr"})

NoReconcile(r) == run[r].cfg.baseMerge = "" /\ run[r].cfg.basePR = ""

\* C16: a run with neither a merge base nor a pull-request base is over once
\* its push has returned, having called none of merge, list-pull-requests
\* and create-pull-request; and no step of such a run changes the set of
\* pull requests or a remote branch other than its head branch.
C16_PushOnly ==
  [][\A r \in Procs :
       /\ (InTrace(r, "push") /\ NoReconcile(r))' =>
            /\ run'[r].pc \in {"done", "failed"}
            /\ run'[r].trace[Len(run'[r].trace)] = "push"
       /\ (run'[r] # run[r] /\ NoReconcile(r)') =>
            /\ pulls' = pulls
            /\ DOMAIN remoteRefs' \ {run[r].head} = DOMAIN remoteRefs \ {run[r].head}
            /\ \A b \in DOMAIN remoteRefs \ {run[r].head} :
                 remoteRefs'[b] = remoteRefs[b]]_vars

\* A run without the two flags has pushed and is done; the base branch and
\* the pull requests are as they were.
C16_Witness ==
  \E r \in Procs :
    /\ run[r].pc = "done" /\ Pushed(r) /\ NoReconcile(r)
    /\ run[r].head # run[r].cfg.outputBase
    /\ remoteRefs[run[r].head] = run[r].hash
    /\ remoteRefs[run[r].cfg.outputBase] = Commit0
    /\ pulls = {}

\* The pull requests of run r's repository from head into base.
PullsOf(r, head, base) ==
  {p \in pulls : p.org = run[r].id.org /\ p.repo = run[r].id.repo
                 /\ p.head = head /\ p.base = base}

\* C17: the head branch is the flag's value, or auto/sync/ and a timestamp
\* when the flag is unset, and it is the same from then on until the run
\* is over: the checkout puts that branch in the local references, the
\* commit sets it to the new commit, the push writes it on the remote, the
\* merge merges what the remote holds for it, the listing counts the pull
\* requests from it and a pull request created has it as its head.
C17_HeadFixed ==
  [][\A r \in Procs :
       LET head == run[r].head
           done(from, to) == run[r].pc = from /\ run'[r].pc = to
       IN /\ done("options", "clone") =>
               IF run'[r].cfg.outputHead # ""
               THEN run'[r].head = run'[r].cfg.outputHead
               ELSE HasPrefix(run'[r].head, "auto/sync/")
          /\ (Resolved(r) /\ run'[r].pc # "exited") => run'[r].head = head
          /\ done("checkout", "replace") => head \in DOMAIN run'[r].localRefs
          /\ done("commit", "push") => run'[r].localRefs[head] = run'[r].hash
          /\ (run[r].pc = "push" /\ run'[r].pc \notin {"push", "failed"}) =>
               remoteRefs'[head] = run[r].hash
          /\ done("merge", "done") =>
               LET base == run[r].cfg.baseMerge
               IN \/ remoteRefs'[base] = remoteRefs[base]
                  \/ remoteRefs'[base].parents = <<remoteRefs[base], remoteRefs[head]>>
          /\ (run[r].pc = "listprs" /\ run'[r].pc \in {"done", "createpr"}) =>
               run'[r].listed = Cardinality(PullsOf(r, head, run[r].cfg.basePR))
          /\ done("createpr", "done") =>
               \E p \in PullsOf(r, head, run[r].cfg.basePR)' : pulls' = pulls \cup {p}]_vars

\* A run with a derived head branch pushed its commit to that branch and
\* opened a pull request from it.
C17_Witness ==
  \E r \in Procs :
    /\ run[r].cfg.outputHead = "" /\ run[r].pc = "done"
    /\ InTrace(r, "create-pr")
    /\ remoteRefs[run[r].head] = run[r].hash
    /\ \E p \in pulls : p.head = run[r].head

\* C18: a step of a run that has not made its push call changes no remote
\* branch and no pull request, unless it is the push call itself of a run
\* that has met no error: the push is the first write to the remote, and a
\* run that fails before it leaves the remote as it was.
C18_PushFirstWrite ==
  [][\A r \in Procs :
       (/\ run'[r] # run[r]
        /\ ~InTrace(r, "push")
        /\ run[r].pc # "push" \/ run[r].err # "") =>
         remoteRefs' = remoteRefs /\ pulls' = pulls]_vars

\* The first run failed at its commit: the remote has the branches and the
\* commits it started with, and no pull request.
C18_Witness ==
  \E r \in Procs :
    /\ run[r].pc = "failed" /\ run[r].err = "committing"
    /\ history # <<>> /\ Len(history) = 1
    /\ nExternal = 0
    /\ remoteRefs = ("develop" :> Commit0) @@ ("main" :> Commit0)
    /\ pulls = {}

\* Whether the two reference tables agree on every branch outside `but`.
SameRefsBut(refs1, refs2, but) ==
  /\ DOMAIN refs1 \ but = DOMAIN refs2 \ but
  /\ \A b \in DOMAIN refs1 \ but : refs1[b] = refs2[b]

\* C19: the push of a run changes no pull request and no remote branch
\* other than the run's head branch; the merge changes no pull request and
\* no remote branch other than the merge base; no other step of a run
\* changes a remote branch.
C19_OneRefWritten ==
  [][\A r \in Procs :
       run'[r] # run[r] =>
         IF run[r].pc = "push"
         THEN pulls' = pulls /\ SameRefsBut(remoteRefs', remoteRefs, {run[r].head})
         ELSE IF run[r].pc = "merge"
         THEN pulls' = pulls
              /\ SameRefsBut(remoteRefs', remoteRefs, {run[r].cfg.baseMerge})
         ELSE remoteRefs' = remoteRefs]_vars

\* A run pushed a new commit to its head branch, and the base branch it was
\* cloned from still holds the commit the run built on.
C19_Witness ==
  \E r \in Procs :
    /\ Pushed(r) /\ run[r].pc \in {"merge", "listprs", "done"}
    /\ run[r].head # run[r].cfg.outputBase
    /\ remoteRefs[run[r].head] = run[r].hash
    /\ remoteRefs[run[r].cfg.outputBase] = run[r].parent

\* How many times run r made the call or step `what`.
Calls(r, what) ==
  Cardinality({i \in 1..Len(run[r].trace) : run[r].trace[i] = what})

\* C20: a run calls create-pull-request at most once, only with a
\* pull-request base and no merge base, and only after its own listing of
\* the pull requests returned none; the request the call opened is a draft
\* from the run's head branch into its pull-request base.  Every open pull
\* request is a draft.
C20_CreateOnceDraft ==
  /\ \A p \in pulls : p.draft
  /\ \A r \in Procs :
       (InTrace(r, "create-pr") \/ run[r].pc = "createpr") =>
         /\ Calls(r, "create-pr") <= 1
         /\ run[r].cfg.basePR # "" /\ run[r].cfg.baseMerge = ""
         /\ Calls(r, "list-prs") = 1 /\ run[r].listed = 0
         /\ InTrace(r, "create-pr") => Before(r, "list-prs", "create-pr")
         /\ run[r].pc = "done" =>
              \E p \in pulls :
                /\ p.draft /\ p.head = run[r].head /\ p.base = run[r].cfg.basePR
                /\ p.org = run[r].id.org /\ p.repo = run[r].id.repo

\* A run on the pull-request path listed no request and opened a draft.
C20_Witness ==
  \E r \in Procs :
    /\ run[r].pc = "done" /\ Calls(r, "create-pr") = 1
    /\ run[r].listed = 0
    /\ \E p \in pulls : p.draft /\ p.head = run[r].head /\ p.base = "develop"

====
